---- MODULE Spec2Model ----
(***************************************************************************)
(* The item pipeline of news_scraper/pipelines.py:                         *)
(*   DuplicatesPipeline (200) -> AIAnalysisPipeline (300) ->               *)
(*   DatabasePipeline (400)                                                *)
(* Strings are modelled as sequences of tokens (words); the digest of a    *)
(* string is a token of its own.  Every process_item is split at the       *)
(* statements that touch shared state, so that Spec (one item at a time,   *)
(* the way a single-threaded host calls the stages) and SpecConc (two      *)
(* callers interleaving) run the same steps.                               *)
(***************************************************************************)
EXTENDS Integers, Sequences, FiniteSets, TLC

\* ------------------------------------------------------------ bounds
MaxItems == 2
\* tokens in a title handed to extract_heuristic or is_tradable
MaxTitleLen == 2

\* ------------------------------------------------------------ constants
\* list(self.seen_hashes)[:2000]
SoftWindow == 2000
\* the defaults written by AIAnalysisPipeline (confidence_score = 50)
DefaultConfidence == 50

Workers == {"w1", "w2"}

None == "<None>"
Unset == "<unset>"

\* ------------------------------------------------------------ text
\* Titles and contents: sequences of whitespace-separated tokens.
Apple6 == <<"Apple", "stock", "surges", "after", "earnings", "beat">>
Apple7 == <<"Apple", "stock", "surges", "after", "earnings", "beat", "report">>
GoldTitle == <<"Gold", "prices", "plunge", "amid", "selloff", "fears">>
TickerTitle == <<"Apple", "(AAPL)", "and", "EUR/USD", "both", "move">>

\* str.strip() on a URL: the URLs of the model are " " (blank), "u1",
\* " u1" (padded) and "u2".
Strip(s) ==
  CASE s = " " -> ""
    [] s = " u1" -> "u1"
    [] OTHER -> s

\* hashlib.md5(base.encode('utf-8')).hexdigest(): one digest per base string,
\* a 32-character lowercase hexadecimal word.  base is a sequence of tokens.
Md5(base) ==
  CASE base = <<"u1">> -> "hexu1"
    [] base = <<"u2">> -> "hexu2"
    [] base = <<"hexu1">> -> "hexhexu1"
    [] base = Apple6 -> "hexapple6"
    [] base = Apple7 -> "hexapple7"
    [] base = GoldTitle -> "hexgold"
    [] base = TickerTitle -> "hexticker"
    [] base = <<"body">> -> "hexbody"
    [] base = Apple6 \o <<"u1">> -> "hexapple6u1"
    [] base = Apple7 \o <<"u2">> -> "hexapple7u2"

\* One token after lower() and re.sub(r'[^a-z0-9\s]', ' ', ...): the words left.
NormTok(t) ==
  CASE t = "Apple" -> <<"apple">>
    [] t = "Gold" -> <<"gold">>
    [] t = "(AAPL)" -> <<"aapl">>
    [] t = "EUR/USD" -> <<"eur", "usd">>
    [] OTHER -> <<t>>

RECURSIVE normalize_title(_)
normalize_title(text) ==
  IF text = <<>> THEN <<>>
  ELSE NormTok(Head(text)) \o normalize_title(Tail(text))

\* str.split() of a normalized title or of a digest, then set(): the token set.
Range(s) == {s[i] : i \in DOMAIN s}
TitleTokens(title) == Range(normalize_title(title))
HashTokens(fp) == {fp}

\* The similarity of an empty token set taken as a match.
JaccardHitEmptyAsMatch(a, b) ==
  \/ a = {}
  \/ b = {}
  \/ 5 * Cardinality(a \cap b) >= 4 * Cardinality(a \cup b)

\* j = len(a & b) / len(a | b); j >= 0.8, for non-empty a and b
JaccardHit(a, b) ==
  /\ a # {}
  /\ b # {}
  /\ 5 * Cardinality(a \cap b) >= 4 * Cardinality(a \cup b)

\* ------------------------------------------------------------ items
\* What a producer hands to the pipeline.  kind is the Python type of the item:
\* a plain dict or a scrapy.Item (NewsItem), which is a MutableMapping, not a dict.
ItemTable ==
  [ a1 |-> [kind |-> "dict", url |-> "u1", title |-> Apple6, content |-> <<>>,
            published_date |-> "iso"],
    a2 |-> [kind |-> "dict", url |-> "u2", title |-> Apple7, content |-> <<>>,
            published_date |-> "garbage"],
    g1 |-> [kind |-> "dict", url |-> " u1", title |-> GoldTitle, content |-> <<>>,
            published_date |-> "absent"],
    h1 |-> [kind |-> "dict", url |-> " ", title |-> <<"hexu1">>, content |-> <<>>,
            published_date |-> "struct"],
    b1 |-> [kind |-> "NewsItem", url |-> " ", title |-> <<>>, content |-> <<"body">>,
            published_date |-> "iso"] ]

ItemIds == DOMAIN ItemTable

\* The items of the two-caller specification: two with one fingerprint (the same
\* URL up to padding) and one with another.
ConcItemIds == {"a1", "g1", "a2"}

\* The identifier without the URL preference: title + content for every item.
BaseOfTitleContent(id) == ItemTable[id].title \o ItemTable[id].content

\* The stable identifier and its digest (DuplicatesPipeline.process_item).
BaseOf(id) ==
  LET it == ItemTable[id] IN
  IF Strip(it.url) # "" THEN <<Strip(it.url)>> ELSE it.title \o it.content

ContentHash(id) == Md5(BaseOf(id))

\* DatabasePipeline recomputes a missing content_hash from title + content only.
FallbackHash(id) == Md5(ItemTable[id].title \o ItemTable[id].content)

\* ------------------------------------------------------------ configuration
\* AIAnalysisPipeline._load_ai_config.  OpenAI is never imported in pipelines.py, so
\* OpenAI(api_key=...) cannot build a client: with provider 'openai' the pipeline
\* either fails to construct or is left with client = None.
AIConfigs ==
  { [ai_provider |-> "openai", client |-> None, ollama_model |-> None],
    [ai_provider |-> "ollama", client |-> None, ollama_model |-> "llama3:latest"],
    [ai_provider |-> "other", client |-> None, ollama_model |-> None] }

\* not self.ai_provider or (openai and not self.client) or (ollama and not self.ollama_model)
AIUnavailable(cfg) ==
  \/ cfg.ai_provider = None
  \/ (cfg.ai_provider = "openai" /\ cfg.client = None)
  \/ (cfg.ai_provider = "ollama" /\ cfg.ollama_model \in {None, ""})

EnvValues == {Unset, "0", "TRUE"}

\* The flag read with the default '0'.
AllowUnverifiedDefaultOff(env) ==
  (IF env = Unset THEN "0" ELSE env) \in {"1", "true", "yes"}

\* os.getenv('ALLOW_UNVERIFIED_INSTRUMENTS', '1') in ('1', 'true', 'yes')
AllowUnverified(env) ==
  (IF env = Unset THEN "1" ELSE env) \in {"1", "true", "yes"}

\* The deployments of the model: the provider setting and the environment.
Deployments ==
  {<<c, e>> \in AIConfigs \X EnvValues :
     \/ c.ai_provider = "ollama"
     \/ (c.ai_provider = "openai" /\ e = Unset)
     \/ (c.ai_provider = "other" /\ e = "0")}

\* ------------------------------------------------------------ remote analysis
\* confidence_score as the remote sent it, and int() of it.
ConfInt(n) == [kind |-> "int", n |-> n]
ConfNumStr(n) == [kind |-> "numstr", n |-> n]
ConfWord == [kind |-> "word", n |-> 0]
ConfAbsent == [kind |-> "absent", n |-> 0]
IntFails(c) == c.kind = "word"
IntOf(c) == IF c.kind = "absent" THEN DefaultConfidence ELSE c.n

\* What the Ollama call can come back with.
\*   transport : requests.post raises
\*   status    : status_code != 200
\*   json      : a JSON object was found in the content; its fields may be absent
\*   manual    : no JSON object; _parse_ollama_response scans the text
\*   stall     : the server accepts the request and never answers
RemoteOutcomes ==
  { [tag |-> "transport", itype |-> Unset, iname |-> Unset, rec |-> Unset,
     conf |-> ConfAbsent, analysis |-> Unset],
    [tag |-> "status", itype |-> Unset, iname |-> Unset, rec |-> Unset,
     conf |-> ConfAbsent, analysis |-> Unset],
    [tag |-> "json", itype |-> "Stocks", iname |-> "AAPL", rec |-> "BUY",
     conf |-> ConfInt(75), analysis |-> "remote"],
    [tag |-> "json", itype |-> "Stocks", iname |-> "AAPL", rec |-> "hold",
     conf |-> ConfNumStr(80), analysis |-> "remote"],
    [tag |-> "json", itype |-> "General", iname |-> "", rec |-> "SELL",
     conf |-> ConfInt(60), analysis |-> "remote"],
    [tag |-> "json", itype |-> "Crypto", iname |-> "xyz", rec |-> "BUY",
     conf |-> ConfWord, analysis |-> "remote"],
    [tag |-> "json", itype |-> Unset, iname |-> Unset, rec |-> Unset,
     conf |-> ConfAbsent, analysis |-> Unset],
    [tag |-> "manual", itype |-> "Forex", iname |-> Unset, rec |-> "buy",
     conf |-> ConfInt(70), analysis |-> Unset],
    [tag |-> "json", itype |-> "Bonds", iname |-> "Treasuries", rec |-> "SELL",
     conf |-> ConfInt(55), analysis |-> "remote"],
    [tag |-> "stall", itype |-> Unset, iname |-> Unset, rec |-> Unset,
     conf |-> ConfAbsent, analysis |-> Unset] }

NoRemote(tag) ==
  [tag |-> tag, itype |-> Unset, iname |-> Unset, rec |-> Unset,
   conf |-> ConfAbsent, analysis |-> Unset]

\* str.upper() on the recommendations of the model
Upper(s) ==
  CASE s = "buy" -> "BUY"
    [] s = "sell" -> "SELL"
    [] s = "hold" -> "HOLD"
    [] OTHER -> s

\* _parse_ollama_response: defaults, overwritten by what the patterns find; the
\* instrument_name is never looked for.
parse_ollama_response(r) ==
  [itype |-> IF r.itype = Unset THEN "General" ELSE r.itype,
   iname |-> "",
   rec |-> IF r.rec = Unset THEN "HOLD" ELSE Upper(r.rec),
   conf |-> IF r.conf.kind = "absent" THEN ConfInt(DefaultConfidence) ELSE r.conf,
   analysis |-> "content[:200]"]

\* analysis_result as process_item holds it after the provider branch
AnalysisResult(r) ==
  IF r.tag = "manual" THEN parse_ollama_response(r)
  ELSE [itype |-> r.itype, iname |-> r.iname, rec |-> r.rec, conf |-> r.conf,
        analysis |-> r.analysis]

\* the item fields AIAnalysisPipeline writes
Fields(itype, iname, rec, conf, analysis) ==
  [instrument_type |-> itype, instrument_name |-> iname, recommendation |-> rec,
   confidence_score |-> conf, analysis |-> analysis]

UnavailableDefaults ==
  Fields("General", "", "HOLD", DefaultConfidence, "AI analysis not available")

FailedDefaults ==
  Fields("General", "", "HOLD", DefaultConfidence, "Analysis failed")

\* lines 288-293: analysis_result.get(field, default), int(confidence_score)
FromResult(a) ==
  Fields(IF a.itype = Unset THEN "General" ELSE a.itype,
         IF a.iname = Unset THEN "" ELSE a.iname,
         IF a.rec = Unset THEN "HOLD" ELSE a.rec,
         IntOf(a.conf),
         IF a.analysis = Unset THEN "" ELSE a.analysis)

\* The fields the item leaves AIAnalysisPipeline.process_item with, given what the
\* remote call did (the try / except of lines 216-304).
Classified(r) ==
  IF r.tag \in {"transport", "status", "unknown_provider"} THEN FailedDefaults
  ELSE IF IntFails(AnalysisResult(r).conf) THEN FailedDefaults
  ELSE FromResult(AnalysisResult(r))

\* The exception raised inside the try block of lines 216-293, "none" without one:
\* requests.post raises, raise Exception(...) for another status or provider, int()
\* of a confidence_score that is no number.
Raised(r) ==
  IF r.tag = "transport" THEN "ConnectionError"
  ELSE IF r.tag \in {"status", "unknown_provider"} THEN "Exception"
  ELSE IF r.tag \in {"json", "manual"} /\ IntFails(AnalysisResult(r).conf)
       THEN "ValueError"
  ELSE "none"

\* A handler for the parse errors only.
CaughtParseErrorsOnly(e) == e = "ValueError"

\* line 297, except Exception: every exception of the try block is caught
Caught(e) == e \in {"ConnectionError", "Exception", "ValueError"}

\* ------------------------------------------------------------ heuristics
\* The regular expressions of extract_heuristic and is_tradable, token by token:
\* what a pattern captures in a token, None when the token does not match.
\*   paren     \(([A-Z]{1,6})\)
\*   exchange  (nasdaq|nyse|amex|tsx|lse|sehk)\s*[:\-]\s*([A-Z]{1,6})   re.I
\*   forex     \b([A-Z]{3})/?([A-Z]{3})\b
\*   ticker    \b(BTC|ETH|SOL|ADA|XRP|DOGE|USDT|USDC|BNB)\b             re.I
\*   coin      \b(bitcoin|ethereum|solana|cardano|ripple|dogecoin)\b    re.I
\*   commodity \b(gold|silver|oil|brent|wti|copper|corn|wheat|soy|natural gas)\b re.I
\*   index     (s&p|sp500|nasdaq\s*100?|dow\s*jones|dax|ftse|nikkei|cac|hang\s*seng|tsx) re.I
\*   upper     \b[A-Z]{1,6}\b
\*   indexgate (s&p|sp500|nasdaq|dow|dax|ftse|nikkei|cac|hang seng|tsx) re.I
Capture(pattern, t) ==
  CASE pattern = "paren" /\ t = "(AAPL)" -> "AAPL"
    [] pattern = "exchange" /\ t = "NYSE:IBM" -> "IBM"
    [] pattern = "forex" /\ t = "EUR/USD" -> "EUR/USD"
    [] pattern = "forex" /\ t = "USDJPY" -> "USD/JPY"
    [] pattern = "ticker" /\ t \in {"BTC", "btc"} -> "BTC"
    [] pattern = "coin" /\ t \in {"Bitcoin", "bitcoin"} -> "BTC"
    [] pattern = "commodity" /\ t \in {"Gold", "gold"} -> "Gold"
    [] pattern = "index" /\ t \in {"FTSE", "S&P", "Nasdaq100"} -> "Index"
    [] pattern = "indexgate" /\ t \in {"FTSE", "S&P", "Nasdaq100", "Nasdaq"} -> "Index"
    [] pattern = "upper" /\ t \in {"AAPL", "IBM", "BTC", "SYM", "FTSE", "EUR/USD",
                                   "USDJPY", "^GSPC", "NYSE:IBM", "S&P", "(AAPL)"} -> t
    [] OTHER -> None

\* re.search(pattern, text): the leftmost match's capture, None without a match
RECURSIVE Search(_, _)
Search(pattern, text) ==
  IF text = <<>> THEN None
  ELSE IF Capture(pattern, Head(text)) # None THEN Capture(pattern, Head(text))
  ELSE Search(pattern, Tail(text))

NoMatch == [type |-> None, name |-> None]
Match(type, name) == [type |-> type, name |-> name]

\* The tiers with the currency pair looked for before the ticker.
extract_forex_first(title, content) ==
  LET text == IF content # <<>> THEN title \o content ELSE title IN
  IF Search("forex", text) # None THEN Match("Forex", Search("forex", text))
  ELSE IF Search("paren", text) # None THEN Match("Stocks", Search("paren", text))
  ELSE IF Search("exchange", text) # None THEN Match("Stocks", Search("exchange", text))
  ELSE IF Search("ticker", text) # None THEN Match("Crypto", Search("ticker", text))
  ELSE IF Search("coin", text) # None THEN Match("Crypto", Search("coin", text))
  ELSE IF Search("commodity", text) # None
       THEN Match("Commodities", Search("commodity", text))
  ELSE IF Search("index", text) # None THEN Match("Indices", "Index")
  ELSE NoMatch

\* AIAnalysisPipeline.extract_heuristic: the first tier that matches, in the fixed
\* order Stocks, Forex, Crypto, Commodities, Indices
extract_heuristic(title, content) ==
  LET text == IF content # <<>> THEN title \o content ELSE title IN
  IF Search("paren", text) # None THEN Match("Stocks", Search("paren", text))
  ELSE IF Search("exchange", text) # None THEN Match("Stocks", Search("exchange", text))
  ELSE IF Search("forex", text) # None THEN Match("Forex", Search("forex", text))
  ELSE IF Search("ticker", text) # None THEN Match("Crypto", Search("ticker", text))
  ELSE IF Search("coin", text) # None THEN Match("Crypto", Search("coin", text))
  ELSE IF Search("commodity", text) # None
       THEN Match("Commodities", Search("commodity", text))
  ELSE IF Search("index", text) # None THEN Match("Indices", "Index")
  ELSE NoMatch

\* str.lower() on an instrument_type
LowerType(t) ==
  CASE t = "Stocks" -> "stocks"
    [] t = "Forex" -> "forex"
    [] t = "Crypto" -> "crypto"
    [] t = "Commodities" -> "commodities"
    [] t = "Indices" -> "indices"
    [] t = "General" -> "general"
    [] OTHER -> t

\* The gate without the test of the name (if not name: return False).
is_tradable_any_name(instrument_type, instrument_name, title) ==
  LET t == LowerType(IF instrument_type \in {None, Unset} THEN "" ELSE instrument_type)
      name == IF instrument_name \in {None, Unset} THEN "" ELSE Strip(instrument_name)
      text == <<name>> \o title
  IN IF t = "stocks"
     THEN Search("paren", text) # None \/ Search("upper", <<name>>) # None
     ELSE IF t = "forex" THEN Search("forex", text) # None
     ELSE IF t = "crypto" THEN Search("ticker", text) # None
     ELSE IF t = "commodities" THEN Search("commodity", text) # None
     ELSE IF t = "indices" THEN Search("indexgate", text) # None
     ELSE FALSE

\* AIAnalysisPipeline.is_tradable; text = f"{name} {title}"
is_tradable(instrument_type, instrument_name, title) ==
  LET t == LowerType(IF instrument_type \in {None, Unset} THEN "" ELSE instrument_type)
      name == IF instrument_name \in {None, Unset} THEN "" ELSE Strip(instrument_name)
      text == <<name>> \o title
  IN IF name = "" THEN FALSE
     ELSE IF t = "stocks"
          THEN Search("paren", text) # None \/ Search("upper", <<name>>) # None
     ELSE IF t = "forex" THEN Search("forex", text) # None
     ELSE IF t = "crypto" THEN Search("ticker", text) # None
     ELSE IF t = "commodities" THEN Search("commodity", text) # None
     ELSE IF t = "indices" THEN Search("indexgate", text) # None
     ELSE FALSE

\* ------------------------------------------------------------ symbol resolver
\* POST /api/resolve-yahoo, timeout=10: the call raises (refused, timed out, a body
\* that is no JSON), answers another status than 200, or answers 200 with a symbol
\* that may be missing or empty.
ResolverOutcomes ==
  { [tag |-> "raises", symbol |-> Unset],
    [tag |-> "status", symbol |-> Unset],
    [tag |-> "ok", symbol |-> Unset],
    [tag |-> "ok", symbol |-> ""],
    [tag |-> "ok", symbol |-> "SYM"] }

NoAnswer == [tag |-> "none", symbol |-> Unset]

HasSymbol(ro) == ro.tag = "ok" /\ ro.symbol \notin {Unset, ""}

\* lines 358-373.  "from datetime import datetime" at line 364 makes datetime a
\* local name of process_item, bound only once that line has run: the branches of
\* lines 371 and 373 (a published_date that is no string, or missing or empty)
\* read it unbound, and the UnboundLocalError goes to the outer except.
DateRaises(id) == ItemTable[id].published_date \in {"absent", "struct"}

\* lines 362-369: the published_at written with the row
PublishedAt(id) ==
  IF ItemTable[id].published_date = "iso" THEN "parsed" ELSE "now"

\* ------------------------------------------------------------ state
VARIABLES
  config,        \* AIAnalysisPipeline: ai_provider, client, ollama_model
  env_allow,     \* the environment's ALLOW_UNVERIFIED_INSTRUMENTS
  seen_hashes,   \* DuplicatesPipeline.seen_hashes
  news_articles, \* the committed rows of table news_articles
  txn,           \* rows inserted on the shared connection and not yet committed
  saved_count,   \* DatabasePipeline.saved_count
  nsub,          \* items submitted so far
  accepted,      \* ids of the items DuplicatesPipeline returned, this run, in order
  pc,            \* per caller: the statement it is at
  arg,           \* per caller: what the previous stage returned (the item or None)
  item,          \* per caller: the item's id and the fields the stages wrote
  remote,        \* per caller: what the remote analysis did for the item, kept
                 \* until DatabasePipeline takes the item
  resolved,      \* per caller: the symbol resolver's answer, until it is acted on
  outcome,       \* how the item that finished last ended
  last_error,    \* the exception logged for that item ("none" without one)
  call           \* a direct call of extract_heuristic or is_tradable: its
                 \* arguments and, once it has returned, its result

vars == <<config, env_allow, seen_hashes, news_articles, txn, saved_count, nsub,
          accepted, pc, arg, item, remote, resolved, outcome, last_error,
          call>>

NoItem ==
  [id |-> None, content_hash |-> Unset, instrument_type |-> Unset,
   instrument_name |-> Unset, recommendation |-> Unset, confidence_score |-> 0,
   analysis |-> Unset]

NewItem(id) == [NoItem EXCEPT !.id = id]

\* No direct call of the two helpers: process_item of no stage reaches them.
NoCall == [fn |-> "none"]

Init ==
  /\ \E d \in Deployments : config = d[1] /\ env_allow = d[2]
  /\ call = NoCall
  /\ seen_hashes = {}
  /\ news_articles = <<>>
  /\ txn = <<>>
  /\ saved_count = 0
  /\ nsub = 0
  /\ accepted = <<>>
  /\ pc = [w \in Workers |-> "idle"]
  /\ arg = [w \in Workers |-> None]
  /\ item = [w \in Workers |-> NoItem]
  /\ remote = [w \in Workers |-> NoRemote("none")]
  /\ resolved = [w \in Workers |-> NoAnswer]
  /\ outcome = "none"
  /\ last_error = "none"

AllIdle == \A w \in Workers : pc[w] = "idle"

\* The item's traversal ends with outcome oc and logged exception e: the caller is
\* free again.
End(w, oc, e) ==
  /\ pc' = [pc EXCEPT ![w] = "idle"]
  /\ outcome' = oc
  /\ last_error' = e
  /\ arg' = [arg EXCEPT ![w] = None]
  /\ item' = [item EXCEPT ![w] = NoItem]
  /\ remote' = [remote EXCEPT ![w] = NoRemote("none")]
  /\ resolved' = [resolved EXCEPT ![w] = NoAnswer]

\* ... without an exception
Finish(w, oc) == End(w, oc, "none")

Goto(w, label) == pc' = [pc EXCEPT ![w] = label]

\* ------------------------------------------------------------ producer
Submit(w, id) ==
  /\ pc[w] = "idle"
  /\ nsub < MaxItems
  /\ nsub' = nsub + 1
  /\ Goto(w, "dedup_check")
  /\ arg' = [arg EXCEPT ![w] = "item"]
  /\ item' = [item EXCEPT ![w] = NewItem(id)]
  /\ remote' = [remote EXCEPT ![w] = NoRemote("none")]
  /\ UNCHANGED <<call, config, env_allow, seen_hashes, news_articles, txn, saved_count,
                 accepted, resolved, outcome, last_error>>

\* One item at a time: the host calls the three stages of an item back to back.
SubmitSerial(id) == AllIdle /\ Submit("w1", id)

\* A second caller enters while the first is at work.
SubmitConc(w, id) == (w = "w1" \/ pc["w1"] # "idle") /\ Submit(w, id)

\* The process ends and a new one starts: the pipelines are constructed again
\* (seen_hashes = set(), saved_count = 0), the connection is closed with whatever it
\* had not committed, the table stays.
Restart ==
  /\ AllIdle
  /\ nsub < MaxItems
  /\ seen_hashes' = {}
  /\ saved_count' = 0
  /\ txn' = <<>>
  /\ accepted' = <<>>
  /\ outcome' = "none"
  /\ last_error' = "none"
  /\ UNCHANGED <<call, config, env_allow, news_articles, nsub, pc, arg, item, remote,
                 resolved>>

\* ------------------------------------------------------------ DuplicatesPipeline
\* lines 29-39: the digest, and the membership test
DedupCheck(w) ==
  /\ pc[w] = "dedup_check"
  /\ LET ch == ContentHash(item[w].id) IN
     /\ item' = [item EXCEPT ![w].content_hash = ch]
     /\ IF ch \in seen_hashes
        THEN /\ arg' = [arg EXCEPT ![w] = None]
             /\ Goto(w, "ai")
        ELSE /\ arg' = arg
             /\ Goto(w, "dedup_add")
  /\ UNCHANGED <<call, config, env_allow, seen_hashes, news_articles, txn, saved_count,
                 nsub, accepted, remote, resolved, outcome, last_error>>

\* The fingerprint recorded only for an item the soft check will let through.
DedupAddIfNovel(w) ==
  /\ pc[w] = "dedup_add"
  /\ seen_hashes' =
       IF \E fp \in seen_hashes :
            JaccardHit(TitleTokens(ItemTable[item[w].id].title), HashTokens(fp))
       THEN seen_hashes
       ELSE seen_hashes \cup {item[w].content_hash}
  /\ Goto(w, "dedup_soft")
  /\ UNCHANGED <<call, config, env_allow, news_articles, txn, saved_count, nsub,
                 accepted, arg, item, remote, resolved, outcome, last_error>>

\* line 41
DedupAdd(w) ==
  /\ pc[w] = "dedup_add"
  /\ seen_hashes' = seen_hashes \cup {item[w].content_hash}
  /\ Goto(w, "dedup_soft")
  /\ UNCHANGED <<call, config, env_allow, news_articles, txn, saved_count, nsub,
                 accepted, arg, item, remote, resolved, outcome, last_error>>

\* list(self.seen_hashes)[:2000]: the first 2000 of the set, in the set's order
Windows(seen) ==
  { S \in SUBSET seen :
      Cardinality(S) = IF Cardinality(seen) < SoftWindow THEN Cardinality(seen)
                       ELSE SoftWindow }

\* lines 44-56: the normalized title's tokens against each digest's tokens
SoftDuplicate(title, window) ==
  \E fp \in window : JaccardHit(TitleTokens(title), HashTokens(fp))

\* lines 43-57
DedupSoft(w) ==
  /\ pc[w] = "dedup_soft"
  /\ \E window \in Windows(seen_hashes) :
       IF SoftDuplicate(ItemTable[item[w].id].title, window)
       THEN /\ arg' = [arg EXCEPT ![w] = None]
            /\ accepted' = accepted
       ELSE /\ arg' = arg
            /\ accepted' = Append(accepted, item[w].id)
  /\ Goto(w, "ai")
  /\ UNCHANGED <<call, config, env_allow, seen_hashes, news_articles, txn, saved_count,
                 nsub, item, remote, resolved, outcome, last_error>>

\* ------------------------------------------------------------ AIAnalysisPipeline
\* What the remote call can do under the configured provider.
RemoteChoices(cfg) ==
  IF cfg.ai_provider = "ollama" THEN RemoteOutcomes
  ELSE {NoRemote("unknown_provider")}

SetFields(it, f) ==
  [it EXCEPT !.instrument_type = f.instrument_type,
             !.instrument_name = f.instrument_name,
             !.recommendation = f.recommendation,
             !.confidence_score = f.confidence_score,
             !.analysis = f.analysis]

\* lines 204-306.  Handed None (the Deduplicator's return for a duplicate), every
\* path ends in item[...] = ... on None: a TypeError leaves the stage and the host
\* drops the item.  requests.post at line 252 is given no timeout: with a server
\* that never answers the call does not return.
AIAnalyze(w) ==
  /\ pc[w] = "ai"
  /\ IF arg[w] = None
     THEN /\ End(w, "StageError", "TypeError")
     ELSE \E r \in (IF AIUnavailable(config) THEN {NoRemote("unavailable")}
                    ELSE RemoteChoices(config)) :
            IF r.tag = "stall"
            THEN /\ remote' = [remote EXCEPT ![w] = r]
                 /\ Goto(w, "ai_stalled")
                 /\ UNCHANGED <<arg, item, resolved, outcome, last_error>>
            ELSE IF Raised(r) # "none" /\ ~Caught(Raised(r))
            THEN End(w, "StageError", Raised(r))
            ELSE /\ remote' = [remote EXCEPT ![w] = r]
                 /\ item' = [item EXCEPT ![w] =
                               SetFields(@, IF r.tag = "unavailable"
                                            THEN UnavailableDefaults
                                            ELSE Classified(r))]
                 /\ Goto(w, "db_lookup")
                 /\ UNCHANGED <<arg, resolved, outcome, last_error>>
  /\ UNCHANGED <<call, config, env_allow, seen_hashes, news_articles, txn, saved_count,
                 nsub, accepted>>

\* ------------------------------------------------------------ DatabasePipeline
\* What a statement on the connection sees: the table and the connection's own
\* uncommitted inserts.
Visible == news_articles \o txn

\* the places of the rows that hold content_hash ch
RowsWithHash(rows, ch) == {i \in DOMAIN rows : rows[i].content_hash = ch}

\* A lookup that never finds the row.
ExistsNever(ch) == FALSE

\* SELECT id FROM news_articles WHERE content_hash = ?  ... cursor.fetchone()
Exists(ch) == \E i \in DOMAIN Visible : Visible[i].content_hash = ch

\* A table without the constraint.
NoConstraint(ch) == FALSE

\* The table's uniqueness constraint on content_hash ("append-only table keyed by
\* unique content_hash"; simple_news_collector.py reads sqlite3.IntegrityError as a
\* duplicate).  The schema is created outside these files.
UniqueConflict(ch) == \E i \in DOMAIN Visible : Visible[i].content_hash = ch

\* The VALUES tuple of the INSERT (lines 417-427)
Row(it) ==
  [title |-> ItemTable[it.id].title,
   summary |-> it.analysis,
   instrument_type |-> it.instrument_type,
   instrument_name |-> it.instrument_name,
   recommendation |-> it.recommendation,
   confidence_score |-> it.confidence_score,
   source_url |-> ItemTable[it.id].url,
   content_hash |-> it.content_hash,
   published_at |-> PublishedAt(it.id)]

\* An error handler that leaves the connection as it is.
RollbackKeepsTxn(w, e) ==
  /\ txn' = txn
  /\ End(w, "Failed", e)

\* except Exception as e: logger.error(str(e)); self.connection.rollback(); return item
Rollback(w, e) ==
  /\ txn' = <<>>
  /\ End(w, "Failed", e)

\* item is None or not isinstance(item, dict)
NotADict(id) == ItemTable[id].kind # "dict"

\* lines 336-355: the guard, the content_hash, the lookup
DbLookup(w) ==
  /\ pc[w] = "db_lookup"
  /\ IF NotADict(item[w].id)
     THEN /\ Finish(w, "NotDict")
     ELSE LET ch == IF item[w].content_hash \in {Unset, ""}
                    THEN FallbackHash(item[w].id)
                    ELSE item[w].content_hash
          IN IF Exists(ch)
             THEN /\ Finish(w, "AlreadyExists")
             ELSE /\ item' = [item EXCEPT ![w].content_hash = ch]
                  /\ Goto(w, "db_resolve")
                  /\ remote' = [remote EXCEPT ![w] = NoRemote("none")]
                  /\ UNCHANGED <<arg, resolved, outcome, last_error>>
  /\ UNCHANGED <<call, config, env_allow, seen_hashes, news_articles, txn, saved_count,
                 nsub, accepted>>

\* A test for a missing name only ("is None"), letting '' through.
BlankInstrumentNoneOnly(it) == it.instrument_name = Unset

\* not item.get('instrument_name')
BlankInstrument(it) == it.instrument_name \in {Unset, ""}

\* lines 358-393.  The date is normalised first.  Then, with no instrument_name,
\* self.extract_heuristic is looked up on DatabasePipeline, which does not define
\* it: the AttributeError goes to the outer except (rollback).  Otherwise the
\* resolver is called.
DbResolve(w) ==
  /\ pc[w] = "db_resolve"
  /\ IF DateRaises(item[w].id) THEN Rollback(w, "UnboundLocalError")
     ELSE IF BlankInstrument(item[w]) THEN Rollback(w, "AttributeError")
     ELSE /\ \E ro \in ResolverOutcomes :
               resolved' = [resolved EXCEPT ![w] = ro]
          /\ Goto(w, "db_policy")
          /\ UNCHANGED <<txn, arg, item, remote, outcome, last_error>>
  /\ UNCHANGED <<call, config, env_allow, seen_hashes, news_articles, saved_count,
                 nsub, accepted>>

\* lines 394-410: the symbol replaces the name; without one the environment decides
DbPolicy(w) ==
  /\ pc[w] = "db_policy"
  /\ IF HasSymbol(resolved[w])
     THEN /\ item' = [item EXCEPT ![w].instrument_name = resolved[w].symbol]
          /\ resolved' = [resolved EXCEPT ![w] = NoAnswer]
          /\ Goto(w, "db_insert")
          /\ UNCHANGED <<arg, remote, outcome, last_error>>
     ELSE IF AllowUnverified(env_allow)
     THEN /\ resolved' = [resolved EXCEPT ![w] = NoAnswer]
          /\ Goto(w, "db_insert")
          /\ UNCHANGED <<arg, item, remote, outcome, last_error>>
     ELSE /\ Finish(w, "Dropped")
  /\ UNCHANGED <<call, config, env_allow, seen_hashes, news_articles, txn, saved_count,
                 nsub, accepted>>

\* The statement as INSERT OR REPLACE: a row that holds the content_hash is
\* overwritten instead of the insert being refused.
DbInsertOrReplace(w) ==
  /\ pc[w] = "db_insert"
  /\ \E storage_ok \in BOOLEAN :
       IF ~storage_ok
       THEN /\ Rollback(w, "OperationalError")
            /\ news_articles' = news_articles
       ELSE /\ news_articles' =
                 [i \in DOMAIN news_articles |->
                    IF news_articles[i].content_hash = item[w].content_hash
                    THEN Row(item[w]) ELSE news_articles[i]]
            /\ txn' = IF RowsWithHash(news_articles, item[w].content_hash) # {}
                      THEN txn ELSE Append(txn, Row(item[w]))
            /\ Goto(w, "db_commit")
            /\ UNCHANGED <<arg, item, remote, resolved, outcome, last_error>>
  /\ UNCHANGED <<call, config, env_allow, seen_hashes, saved_count, nsub, accepted>>

\* lines 412-427: cursor.execute(INSERT ...), which the storage may refuse
DbInsert(w) ==
  /\ pc[w] = "db_insert"
  /\ \E storage_ok \in BOOLEAN :
       IF ~storage_ok THEN Rollback(w, "OperationalError")
       ELSE IF UniqueConflict(item[w].content_hash) THEN Rollback(w, "IntegrityError")
       ELSE /\ txn' = Append(txn, Row(item[w]))
            /\ Goto(w, "db_commit")
            /\ UNCHANGED <<arg, item, remote, resolved, outcome, last_error>>
  /\ UNCHANGED <<call, config, env_allow, seen_hashes, news_articles, saved_count,
                 nsub, accepted>>

\* lines 429-431: commit, then saved_count += 1
DbCommit(w) ==
  /\ pc[w] = "db_commit"
  /\ \E storage_ok \in BOOLEAN :
       IF storage_ok
       THEN /\ news_articles' = news_articles \o txn
            /\ txn' = <<>>
            /\ saved_count' = saved_count + 1
            /\ Finish(w, "Inserted")
       ELSE /\ Rollback(w, "OperationalError")
            /\ UNCHANGED <<news_articles, saved_count>>
  /\ UNCHANGED <<call, config, env_allow, seen_hashes, nsub, accepted>>

\* ------------------------------------------------------------ specifications
Step(w) ==
  \/ DedupCheck(w)
  \/ DedupAdd(w)
  \/ DedupSoft(w)
  \/ AIAnalyze(w)
  \/ DbLookup(w)
  \/ DbResolve(w)
  \/ DbPolicy(w)
  \/ DbInsert(w)
  \/ DbCommit(w)

Next ==
  \/ \E id \in ItemIds : SubmitSerial(id)
  \/ \E w \in Workers : Step(w)
  \/ Restart

Spec == Init /\ [][Next]_vars

\* Two callers within one run of the process.
NextConc ==
  \/ \E w \in Workers, id \in ConcItemIds : SubmitConc(w, id)
  \/ \E w \in Workers : Step(w)

SpecConc == Init /\ [][NextConc]_vars

\* The host takes every step that is possible: a stage that can return does return.
\* A call that waits for an answer and has no timeout enables no step.
SpecLive == Init /\ [][Next]_vars /\ \A w \in Workers : WF_vars(Step(w))

\* ------------------------------------------------------------ the two helpers
\* extract_heuristic and is_tradable called directly, on titles of up to
\* MaxTitleLen tokens and a content of at most one token.
HelperTokens ==
  {"(AAPL)", "NYSE:IBM", "EUR/USD", "BTC", "bitcoin", "Gold", "FTSE", "move"}

RECURSIVE SeqsUpTo(_, _)
SeqsUpTo(S, n) ==
  IF n = 0 THEN {<<>>}
  ELSE LET shorter == SeqsUpTo(S, n - 1) IN
       shorter \cup {Append(q, t) : q \in shorter, t \in S}

HelperTitles == SeqsUpTo(HelperTokens, MaxTitleLen)
HelperContents == SeqsUpTo(HelperTokens, 1)

\* instrument_type and instrument_name as a caller may pass them
HelperTypes ==
  {"Stocks", "Forex", "Crypto", "Commodities", "Indices", "General", "Bonds",
   "stocks", "", None}
HelperNames ==
  {"", " ", None, "AAPL", "EUR/USD", "BTC", "Gold", "FTSE", "Treasuries"}

ExtractCall(title, content) ==
  [fn |-> "extract_heuristic", title |-> title, content |-> content,
   returned |-> FALSE, result |-> NoMatch]

GateCall(itype, iname, title) ==
  [fn |-> "is_tradable", instrument_type |-> itype, instrument_name |-> iname,
   title |-> title, returned |-> FALSE, result |-> FALSE]

InitHelpers ==
  /\ config = [ai_provider |-> "openai", client |-> None, ollama_model |-> None]
  /\ env_allow = Unset
  /\ call \in {ExtractCall(t, c) : t \in HelperTitles, c \in HelperContents}
             \cup {GateCall(ty, n, t) : ty \in HelperTypes, n \in HelperNames,
                                       t \in HelperTitles}
  /\ seen_hashes = {}
  /\ news_articles = <<>>
  /\ txn = <<>>
  /\ saved_count = 0
  /\ nsub = 0
  /\ accepted = <<>>
  /\ pc = [w \in Workers |-> "idle"]
  /\ arg = [w \in Workers |-> None]
  /\ item = [w \in Workers |-> NoItem]
  /\ remote = [w \in Workers |-> NoRemote("none")]
  /\ resolved = [w \in Workers |-> NoAnswer]
  /\ outcome = "none"
  /\ last_error = "none"

CallExtract ==
  /\ call.fn = "extract_heuristic"
  /\ ~call.returned
  /\ call' = [call EXCEPT !.returned = TRUE,
                          !.result = extract_heuristic(call.title, call.content)]
  /\ UNCHANGED <<config, env_allow, seen_hashes, news_articles, txn, saved_count,
                 nsub, accepted, pc, arg, item, remote, resolved, outcome,
                 last_error>>

CallGate ==
  /\ call.fn = "is_tradable"
  /\ ~call.returned
  /\ call' = [call EXCEPT !.returned = TRUE,
                          !.result = is_tradable(call.instrument_type,
                                                 call.instrument_name, call.title)]
  /\ UNCHANGED <<config, env_allow, seen_hashes, news_articles, txn, saved_count,
                 nsub, accepted, pc, arg, item, remote, resolved, outcome,
                 last_error>>

NextHelpers == CallExtract \/ CallGate

SpecHelpers == InitHelpers /\ [][NextHelpers]_vars

\* ------------------------------------------------------------ simple_news_collector
\* The articles the collector fetches from the feeds: title and link.
CollectorItemIds == {"a1", "a2"}

\* create_content_hash(title, url): md5 of f"{title}{url}"
create_content_hash(id) == Md5(ItemTable[id].title \o <<ItemTable[id].url>>)

\* the VALUES tuple of save_articles_to_db (lines 75-85)
CollectorRow(id) ==
  [title |-> ItemTable[id].title,
   summary |-> "summary",
   instrument_type |-> "stocks",
   instrument_name |-> None,
   recommendation |-> "HOLD",
   confidence_score |-> DefaultConfidence,
   source_url |-> ItemTable[id].url,
   content_hash |-> create_content_hash(id),
   published_at |-> "now"]

\* save_articles_to_db for one fetched article, on the collector's own connection:
\* the INSERT, refused on a content_hash that is stored (sqlite3.IntegrityError,
\* "Duplicate") or by a storage error (the table is locked while the pipeline's
\* connection holds uncommitted rows), then the commit.
save_articles_to_db(id) ==
  /\ nsub < MaxItems
  /\ nsub' = nsub + 1
  /\ \E storage_ok \in BOOLEAN :
       IF /\ storage_ok
          /\ txn = <<>>
          /\ RowsWithHash(news_articles, create_content_hash(id)) = {}
       THEN news_articles' = Append(news_articles, CollectorRow(id))
       ELSE news_articles' = news_articles
  /\ UNCHANGED <<call, config, env_allow, seen_hashes, txn, saved_count, accepted,
                 pc, arg, item, remote, resolved, outcome, last_error>>

\* The pipeline and the collector writing to the same table.
NextCollectors ==
  \/ Next
  \/ \E id \in CollectorItemIds : save_articles_to_db(id)

SpecCollectors == Init /\ [][NextCollectors]_vars

\* ------------------------------------------------------------ properties
OneRowPerHash(rows) ==
  \A i, j \in DOMAIN rows : rows[i].content_hash = rows[j].content_hash => i = j

StorageUnchanged ==
  /\ news_articles' = news_articles
  /\ txn' = txn
  /\ saved_count' = saved_count

\* the policy flag as documented: on unless the environment says otherwise
FlagEnabled == env_allow \in {Unset, "1", "true", "yes"}

Url(id) == ItemTable[id].url
Title(id) == ItemTable[id].title
Content(id) == ItemTable[id].content

\* C1: Idempotent insert.  A persist call for a content_hash that an earlier call
\* inserted reports AlreadyExists and writes nothing, and the table holds exactly
\* one row with that content_hash afterwards.
C1_IdempotentInsert ==
  [][\A w \in Workers :
       ( /\ pc[w] = "db_lookup"
         /\ pc'[w] # "db_lookup"
         /\ ~NotADict(item[w].id)
         /\ RowsWithHash(news_articles, item[w].content_hash) # {} )
       => /\ pc'[w] = "idle"
          /\ outcome' = "AlreadyExists"
          /\ StorageUnchanged
          /\ Cardinality(RowsWithHash(news_articles', item[w].content_hash)) = 1]_vars

\* C1 witness: after a restart a second persist call met the row the first stored.
C1_Witness ==
  /\ outcome = "AlreadyExists"
  /\ Len(news_articles) = 1
  /\ saved_count = 0

\* C2: content_hash is unique across the stored rows (committed or written on the
\* connection), also when two persist calls interleave lookup and insert.
C2_UniqueContentHash == OneRowPerHash(Visible)

\* C2 witness: two callers hold the same fingerprint, both are past the lookup, one
\* has inserted its row and the other is about to insert.
C2_Witness ==
  /\ pc["w1"] = "db_commit"
  /\ pc["w2"] = "db_insert"
  /\ item["w1"].content_hash = item["w2"].content_hash
  /\ RowsWithHash(txn, item["w1"].content_hash) # {}

\* C3 as stated: two items with the identical non-empty URL are never both
\* accepted by the Deduplicator within one run.
C3_IdenticalNonEmptyUrl ==
  \A i, j \in DOMAIN accepted :
    i < j => ~(Url(accepted[i]) = Url(accepted[j]) /\ Url(accepted[i]) # "")

\* C3 amended: two items whose URLs are equal after trimming whitespace, and not
\* empty after trimming, are never both accepted within one run.
C3_IdenticalNonBlankUrl ==
  \A i, j \in DOMAIN accepted :
    i < j => ~( /\ Strip(Url(accepted[i])) = Strip(Url(accepted[j]))
                /\ Strip(Url(accepted[i])) # "" )

\* C3 witness: an item with URL u1 was accepted and a later item with that URL was
\* turned away (the stage after the Deduplicator was handed None).
C3_Witness ==
  /\ Len(accepted) = 1
  /\ Strip(Url(accepted[1])) = "u1"
  /\ seen_hashes = {"hexu1"}
  /\ nsub = 2
  /\ outcome = "StageError"

\* C4: two items with the same fingerprint are never both accepted, also when the
\* membership test and the add of two callers interleave.
C4_ConcurrentSameFingerprint ==
  \A i, j \in DOMAIN accepted :
    i < j => ContentHash(accepted[i]) # ContentHash(accepted[j])

\* C5: an item whose normalized title has Jaccard similarity >= 0.8 with the title
\* of an item accepted before it (another fingerprint, both token sets non-empty) is
\* rejected.
C5_NearDuplicateRejected ==
  \A i, j \in DOMAIN accepted :
    i < j => ~( /\ ContentHash(accepted[i]) # ContentHash(accepted[j])
                /\ JaccardHit(TitleTokens(Title(accepted[i])),
                              TitleTokens(Title(accepted[j]))) )

\* C6: an item whose remote analysis result recommends HOLD (any case) does not
\* leave the Classifier, and no stored row has recommendation HOLD.
C6_HoldFiltered ==
  /\ \A w \in Workers :
       (pc[w] = "db_lookup" /\ remote[w].tag \in {"json", "manual"})
       => Upper(AnalysisResult(remote[w]).rec) # "HOLD"
  /\ \A i \in DOMAIN Visible : Upper(Visible[i].recommendation) # "HOLD"

\* negative-sentiment keywords of the heuristic path
NegativeKeywords ==
  {"down", "plunge", "drop", "selloff", "bearish", "misses", "fraud", "lawsuit"}

HasNegativeKeyword(id) ==
  \E t \in Range(Title(id) \o Content(id)) : t \in NegativeKeywords

\* C7: with the remote analysis unavailable or failed, an item leaves the Classifier
\* only with a heuristic match, carrying the match's type and name, SELL if a
\* negative keyword occurs and BUY otherwise, and confidence 50.
C7_PureHeuristicPath ==
  \A w \in Workers :
    ( /\ pc[w] = "db_lookup"
      /\ remote[w].tag \in {"unavailable", "unknown_provider", "transport", "status"} )
    => LET m == extract_heuristic(Title(item[w].id), Content(item[w].id)) IN
       /\ m # NoMatch
       /\ item[w].instrument_type = m.type
       /\ item[w].instrument_name = m.name
       /\ item[w].recommendation =
            IF HasNegativeKeyword(item[w].id) THEN "SELL" ELSE "BUY"
       /\ item[w].confidence_score = 50

\* C8: for an item whose classification is not tradable and for which the extractor
\* finds no match, persist writes no row with the flag disabled, and goes on to
\* write a row with the generic fallback instrument with the flag enabled.
C8_UnverifiedInstrumentPolicy ==
  [][\A w \in Workers :
       ( /\ pc[w] = "db_resolve"
         /\ pc'[w] # "db_resolve"
         /\ ~is_tradable(item[w].instrument_type, item[w].instrument_name,
                         Title(item[w].id))
         /\ extract_heuristic(Title(item[w].id), Content(item[w].id)) = NoMatch )
       => IF FlagEnabled
          THEN /\ pc'[w] = "db_policy"
               /\ item'[w].instrument_type = "Indices"
               /\ item'[w].instrument_name = "^GSPC"
          ELSE /\ pc'[w] = "idle"
               /\ news_articles' = news_articles]_vars

\* C9: when the resolver gives no symbol (none, an empty one, another status than
\* 200, or the call fails), persist with the flag disabled ends Dropped with the
\* storage unchanged, and with the flag enabled goes on to insert the row with the
\* instrument_name it had.
C9_ResolverPolicy ==
  [][\A w \in Workers :
       /\ ( /\ pc[w] = "db_policy"
            /\ pc'[w] # "db_policy"
            /\ ~HasSymbol(resolved[w]) )
          => IF FlagEnabled
             THEN /\ pc'[w] = "db_insert"
                  /\ item'[w] = item[w]
                  /\ StorageUnchanged
             ELSE /\ pc'[w] = "idle"
                  /\ outcome' = "Dropped"
                  /\ StorageUnchanged
       /\ ( /\ pc[w] = "db_insert"
            /\ pc'[w] = "db_commit" )
          => /\ Len(txn') = Len(txn) + 1
             /\ txn'[Len(txn')].instrument_name = item[w].instrument_name]_vars

\* C9 witness: the resolver gave no symbol, the flag is disabled, and the item
\* ended Dropped with nothing stored.
C9_Witness ==
  /\ ~FlagEnabled
  /\ outcome = "Dropped"
  /\ news_articles = <<>>
  /\ txn = <<>>
  /\ saved_count = 0

\* C10: every stored row has a non-empty instrument_name.
C10_NoBlankInstrument ==
  \A i \in DOMAIN Visible : Visible[i].instrument_name \notin {"", Unset, None}

\* C10 witness: a row is stored, and a later item has reached the instrument test
\* of the Persister with an empty instrument_name and a date that parses.
C10_Witness ==
  /\ Len(news_articles) = 1
  /\ pc["w1"] = "db_resolve"
  /\ item["w1"].instrument_name = ""
  /\ ~DateRaises(item["w1"].id)

\* C11: Storage failure handling.  When the insert or the commit of an item fails,
\* the item ends Failed, nothing of it is left in storage (neither committed nor
\* pending on the connection), the stored rows and the saved count are as before.
C11_StorageFailureRolledBack ==
  [][\A w \in Workers :
       ( /\ pc[w] \in {"db_insert", "db_commit"}
         /\ pc'[w] = "idle"
         /\ outcome' # "Inserted" )
       => /\ outcome' = "Failed"
          /\ last_error' \in {"OperationalError", "IntegrityError"}
          /\ news_articles' = news_articles
          /\ txn' = <<>>
          /\ RowsWithHash(news_articles' \o txn', item[w].content_hash) = {}
          /\ saved_count' = saved_count]_vars

\* C11 witness: the first accepted item failed with a storage error, and the item
\* after it has run through persist and written its row on the connection.
C11_Witness ==
  /\ outcome = "Failed"
  /\ last_error = "OperationalError"
  /\ Len(accepted) = 2
  /\ pc["w1"] = "db_commit"
  /\ news_articles = <<>>
  /\ Len(txn) = 1
  /\ txn[1].content_hash = ContentHash(accepted[2])

\* C12: Remote-analysis failures are never fatal.  Whatever the remote call comes
\* back with (transport failure, another status, a payload without JSON, absent
\* or unusable fields), no exception leaves the Classifier: the item is handed on
\* with all five fields set, the defaults after a failure.
C12_RemoteFailureNotFatal ==
  [][\A w \in Workers :
       ( /\ pc[w] = "ai"
         /\ arg[w] # None
         /\ pc'[w] # "ai" )
       => /\ pc'[w] \in {"db_lookup", "ai_stalled"}
          /\ outcome' = outcome
          /\ last_error' = last_error
          /\ pc'[w] = "db_lookup"
             => /\ item'[w].instrument_type # Unset
                /\ item'[w].instrument_name # Unset
                /\ item'[w].recommendation # Unset
                /\ item'[w].confidence_score \in 0..100
                /\ item'[w].analysis # Unset
                /\ Raised(remote'[w]) # "none"
                   => SetFields(NoItem, FailedDefaults)
                      = [item'[w] EXCEPT !.id = None, !.content_hash = Unset]]_vars

\* C12 witness: the remote call failed in transport and the item left the
\* Classifier with the defaults.
C12_Witness ==
  /\ pc["w1"] = "db_lookup"
  /\ remote["w1"].tag = "transport"
  /\ item["w1"].recommendation = "HOLD"
  /\ item["w1"].confidence_score = DefaultConfidence
  /\ last_error = "none"

\* C13: every item submitted to the pipeline eventually reaches a terminal outcome,
\* also when the remote analysis or the symbol resolver never answers.
C13_EveryItemTerminates ==
  \A w \in Workers : (pc[w] # "idle") ~> (pc[w] = "idle")

\* the tiers of the Instrument Extractor in their order, and what makes one match
TierTypes == <<"Stocks", "Forex", "Crypto", "Commodities", "Indices">>

TierMatches(k, text) ==
  CASE k = 1 -> Search("paren", text) # None \/ Search("exchange", text) # None
    [] k = 2 -> Search("forex", text) # None
    [] k = 3 -> Search("ticker", text) # None \/ Search("coin", text) # None
    [] k = 4 -> Search("commodity", text) # None
    [] k = 5 -> Search("index", text) # None

\* C14: Heuristic priority.  extract_heuristic returns the type of the first tier,
\* in the order Stocks, Forex, Crypto, Commodities, Indices, that matches the title
\* and content, with a name, and returns nothing when no tier matches.
C14_HeuristicPriority ==
  (call.fn = "extract_heuristic" /\ call.returned)
  => LET text == call.title \o call.content
         matching == {k \in DOMAIN TierTypes : TierMatches(k, text)}
     IN IF matching = {}
        THEN call.result = NoMatch
        ELSE /\ \E k \in matching :
                  /\ \A j \in matching : k <= j
                  /\ call.result.type = TierTypes[k]
             /\ call.result.name # None

\* C14 witness: a parenthesized ticker together with a currency pair came back as
\* Stocks.
C14_Witness ==
  /\ call.fn = "extract_heuristic"
  /\ call.returned
  /\ call.title = <<"EUR/USD", "(AAPL)">>
  /\ call.result = Match("Stocks", "AAPL")

\* C15 as stated: is_tradable is false whenever the name is empty or whitespace
\* only, and whenever the type is anything other than Stocks, Forex, Crypto,
\* Commodities, Indices.
C15_TradabilityGate ==
  ( /\ call.fn = "is_tradable"
    /\ call.returned
    /\ \/ call.instrument_name \in {"", " ", None}
       \/ call.instrument_type \notin {"Stocks", "Forex", "Crypto", "Commodities",
                                       "Indices"} )
  => call.result = FALSE

\* C15 amended: ... and whenever the type, letter case aside, is none of stocks,
\* forex, crypto, commodities, indices.
C15_TradabilityGateAnyCase ==
  ( /\ call.fn = "is_tradable"
    /\ call.returned
    /\ \/ call.instrument_name \in {"", " ", None}
       \/ call.instrument_type \notin {"Stocks", "Forex", "Crypto", "Commodities",
                                       "Indices", "stocks", "forex", "crypto",
                                       "commodities", "indices"} )
  => call.result = FALSE

\* C15 witness: type Commodities with an empty name and a title that names gold
\* came back not tradable.
C15_Witness ==
  /\ call.fn = "is_tradable"
  /\ call.returned
  /\ call.instrument_type = "Commodities"
  /\ call.instrument_name = ""
  /\ call.title = <<"Gold">>
  /\ call.result = FALSE

\* C16: Stage ordering on rejection.  An item the Deduplicator rejected stops
\* there: the Classifier is not called for it, no later stage raises an error
\* because of it, and no row is written for it.
C16_RejectedStopsAtDeduplicator ==
  /\ \A w \in Workers : pc[w] \in {"ai", "db_lookup", "db_resolve", "db_policy",
                                     "db_insert", "db_commit"} => arg[w] # None
  /\ outcome # "StageError"
  /\ last_error # "TypeError"

\* every stored row of the pair (type, name) that the remote result r gives
RemotePairRows(r) ==
  {i \in DOMAIN Visible :
     /\ Visible[i].instrument_type = FromResult(AnalysisResult(r)).instrument_type
     /\ Visible[i].instrument_name = FromResult(AnalysisResult(r)).instrument_name}

\* C17: the tradability gate is applied to every successful remote result: no
\* stored row carries a remote (type, name) pair for which is_tradable is false.
C17_GateOnRemoteResult ==
  \A r \in RemoteOutcomes :
    (r.tag \in {"json", "manual"} /\ Raised(r) = "none")
    => \A i \in RemotePairRows(r) :
         is_tradable(Visible[i].instrument_type, Visible[i].instrument_name,
                     Visible[i].title)

\* C18: Successful persist path.  For a NewsItem with a non-empty instrument_name
\* and no row for its content_hash, persist goes on to the resolver and, given a
\* symbol and a working storage, inserts one row whose instrument_name is the symbol.
C18_NewsItemPersisted ==
  [][\A w \in Workers :
       /\ ( /\ pc[w] = "db_lookup"
            /\ pc'[w] # "db_lookup"
            /\ ItemTable[item[w].id].kind = "NewsItem"
            /\ ~BlankInstrument(item[w])
            /\ RowsWithHash(Visible, item[w].content_hash) = {} )
          => pc'[w] = "db_resolve"
       /\ ( /\ pc[w] = "db_policy"
            /\ pc'[w] # "db_policy"
            /\ HasSymbol(resolved[w]) )
          => /\ pc'[w] = "db_insert"
             /\ item'[w].instrument_name = resolved[w].symbol
       /\ ( /\ pc[w] = "db_commit"
            /\ outcome' = "Inserted"
            /\ pc'[w] = "idle" )
          => /\ Len(news_articles') = Len(news_articles) + 1
             /\ news_articles'[Len(news_articles')].instrument_name
                = item[w].instrument_name]_vars

\* C19: a uniqueness conflict on insert is a success-no-op: the item does not end
\* Failed, no error is logged, and the rows stored or pending stay as they are.
C19_ConflictIsNoOp ==
  [][\A w \in Workers :
       ( /\ pc[w] = "db_insert"
         /\ pc'[w] # "db_insert"
         /\ UniqueConflict(item[w].content_hash)
         /\ last_error' # "OperationalError" )
       => /\ outcome' # "Failed"
          /\ last_error' = "none"
          /\ news_articles' = news_articles
          /\ txn' = txn]_vars

\* C20: Storage is append-only.  Every step keeps the stored rows as they are, in
\* their places, and at most adds rows after them.
C20_AppendOnly ==
  [][/\ Len(news_articles') >= Len(news_articles)
     /\ \A i \in DOMAIN news_articles : news_articles'[i] = news_articles[i]]_vars

\* C20 witness: with a row stored, a persist call for the same fingerprint ended
\* AlreadyExists and the row is the only one.
C20_Witness ==
  /\ Len(news_articles) = 1
  /\ saved_count = 1
  /\ nsub = 2
  /\ outcome = "AlreadyExists"

\* the fingerprint of an article's stable identifier: the URL when it is not empty
\* (surrounding whitespace aside), title + content otherwise
StableKey(id) ==
  Md5(IF Strip(Url(id)) # "" THEN <<Strip(Url(id))>> ELSE Title(id) \o Content(id))

\* C21: the content_hash of every stored row is the fingerprint of its article's
\* stable identifier, whichever writer stored the row.
C21_OneKeyPerArticle ==
  \A i \in DOMAIN Visible : \A id \in ItemIds :
    (Visible[i].title = Title(id) /\ Visible[i].source_url = Url(id))
    => Visible[i].content_hash = StableKey(id)

\* C22: an item whose normalized title has no tokens is never rejected by the
\* soft-duplicate check: whatever was seen before, it leaves the check accepted.
C22_EmptyTitleNotSoftRejected ==
  [][\A w \in Workers :
       ( /\ pc[w] = "dedup_soft"
         /\ pc'[w] # "dedup_soft"
         /\ TitleTokens(Title(item[w].id)) = {} )
       => /\ arg'[w] = "item"
          /\ accepted' = Append(accepted, item[w].id)]_vars

\* C22 witness: an item without a title was accepted after another accepted item.
C22_Witness ==
  /\ Len(accepted) = 2
  /\ Title(accepted[2]) = <<>>
  /\ Cardinality(seen_hashes) = 2

\* C23: Confidence coercion.  When the remote analysis gave a result whose
\* confidence_score does not convert to an integer, the item leaves the Classifier
\* with the result's type, name, recommendation and analysis, and confidence 50.
C23_ConfidenceCoercion ==
  \A w \in Workers :
    ( /\ pc[w] = "db_lookup"
      /\ remote[w].tag \in {"json", "manual"}
      /\ IntFails(AnalysisResult(remote[w]).conf) )
    => /\ item[w].instrument_type = AnalysisResult(remote[w]).itype
       /\ item[w].instrument_name = AnalysisResult(remote[w]).iname
       /\ item[w].recommendation = AnalysisResult(remote[w]).rec
       /\ item[w].analysis = AnalysisResult(remote[w]).analysis
       /\ item[w].confidence_score = 50

\* C24: Extractor and gate agree.  Whatever (type, name) extract_heuristic returns
\* for a title and content, is_tradable(type, name, title) is true.
C24_ExtractorAndGateAgree ==
  ( /\ call.fn = "extract_heuristic"
    /\ call.returned
    /\ call.result # NoMatch )
  => is_tradable(call.result.type, call.result.name, call.title)

\* C25: within a run the seen set never loses a fingerprint; when the Deduplicator
\* returns for an item, accepted or rejected, the item's fingerprint is in the
\* set; and an item whose fingerprint is in the set is rejected.
C25_SeenSetMonotone ==
  [][/\ Restart \/ seen_hashes \subseteq seen_hashes'
     /\ \A w \in Workers :
          /\ (pc[w] \in {"dedup_check", "dedup_soft"} /\ pc'[w] = "ai")
             => ContentHash(item[w].id) \in seen_hashes'
          /\ ( /\ pc[w] = "dedup_check"
               /\ pc'[w] # "dedup_check"
               /\ ContentHash(item[w].id) \in seen_hashes )
             => arg'[w] = None]_vars

\* C25 witness: an item was rejected by the soft-duplicate check and its
\* fingerprint is in the seen set, next to that of the item accepted before it.
C25_Witness ==
  /\ pc["w1"] = "ai"
  /\ arg["w1"] = None
  /\ accepted = <<"a1">>
  /\ item["w1"].content_hash = "hexhexu1"
  /\ seen_hashes = {"hexu1", "hexhexu1"}

\* C26: between calls the Persister's saved_count equals the number of rows it
\* has inserted and committed (no restart in between: the table started empty
\* and the count at 0).
C26_SavedCountMatchesRows ==
  AllIdle => saved_count = Len(news_articles)

====
